---- MODULE Spec2Model ----
(***************************************************************************)
(* Model of the mmds metadata store of warp-mds: the JSON Merge Patch      *)
(* engine json_patch, the three warp handlers get_mds / put_mds /          *)
(* patch_mds and the process-wide MMDS mutex (src/mmds/src/lib.rs).        *)
(* The data_store module (Mmds: put_data, patch_data, get_value) is not    *)
(* part of the available sources and is modelled from spec.md sections     *)
(* 4.1, 4.2 and 4.4.                                                       *)
(***************************************************************************)
EXTENDS Integers, Sequences, FiniteSets, TLC

(***************************************************************************)
(* Bounds of the model.                                                    *)
(***************************************************************************)
\* largest number of JSON values (scalars and objects) in one request body
MaxSize == 3
\* largest number of characters after "/mds" in a requested path
MaxPathLen == 4
\* number of successful writes followed in the one-client specification
MaxWrites == 2
\* number of requests the clients send in the concurrent specification
MaxCalls == 3

(***************************************************************************)
(* serde_json::Value.  Every value is a record of the same shape: t is the *)
(* variant, s the payload of a scalar, m the entries of an object in the   *)
(* order its Map iterates them (each entry a record [k, v]).               *)
(*                                                                         *)
(* serde_json::Map is one of two containers, chosen when the crate is      *)
(* built: a BTreeMap, which iterates in the order of the keys, or, with    *)
(* the feature preserve_order, an IndexMap, which iterates in the order of *)
(* insertion and whose remove is swap_remove.  The manifest that chooses   *)
(* is not part of the available sources, so build is either, and stays     *)
(* what it is.                                                             *)
(***************************************************************************)
VARIABLE build

Builds == {"default", "preserve_order"}

\* the keys of the model in the order of String's Ord
KeyOrder == <<"a", "b", "c">>
KeyRank(k) == CHOOSE i \in 1..Len(KeyOrder) : KeyOrder[i] = k

Null == [t |-> "null", s |-> "", m |-> <<>>]
Str(s) == [t |-> "string", s |-> s, m |-> <<>>]
Num(s) == [t |-> "number", s |-> s, m |-> <<>>]
Bool(s) == [t |-> "bool", s |-> s, m |-> <<>>]
Arr(s) == [t |-> "array", s |-> s, m |-> <<>>]
Obj(m) == [t |-> "object", s |-> "", m |-> m]
Entry(k, v) == [k |-> k, v |-> v]

is_object(v) == v.t = "object"
is_null(v) == v.t = "null"
is_string(v) == v.t = "string"

\* Map::new()
MapNew == <<>>

MapKeys(m) == {m[i].k : i \in 1..Len(m)}

MapHas(m, key) == key \in MapKeys(m)

MapIndex(m, key) == CHOOSE i \in 1..Len(m) : m[i].k = key

\* map[key] for a key that is present
MapGet(m, key) == m[MapIndex(m, key)].v

\* Map::remove: an absent key is a no-op; BTreeMap::remove leaves the other
\* entries in key order, IndexMap::swap_remove moves the last entry into the
\* place of the removed one
MapRemove(m, key) ==
    IF ~MapHas(m, key)
    THEN m
    ELSE LET i == MapIndex(m, key)
         IN  IF build = "default" \/ i = Len(m)
             THEN SubSeq(m, 1, i - 1) \o SubSeq(m, i + 1, Len(m))
             ELSE [SubSeq(m, 1, Len(m) - 1) EXCEPT ![i] = m[Len(m)]]

\* Map::entry(key).or_insert(dflt): a missing key is inserted with dflt, at
\* its place in key order in a BTreeMap, at the end in an IndexMap
MapOrInsert(m, key, dflt) ==
    IF MapHas(m, key)
    THEN m
    ELSE IF build = "default"
         THEN SelectSeq(m, LAMBDA e : KeyRank(e.k) < KeyRank(key))
                  \o <<Entry(key, dflt)>>
                  \o SelectSeq(m, LAMBDA e : KeyRank(e.k) > KeyRank(key))
         ELSE Append(m, Entry(key, dflt))

\* assignment through the &mut Value that entry().or_insert() returned
MapSet(m, key, v) == [m EXCEPT ![MapIndex(m, key)] = Entry(key, v)]

(***************************************************************************)
(* json_patch: RFC 7396 merge of patch into target, as the code computes   *)
(* it.  PatchEntry is one iteration of the for loop over the patch's       *)
(* entries, PatchLoop the loop from entry i on.                            *)
(***************************************************************************)
RECURSIVE json_patch(_, _)
RECURSIVE PatchEntry(_, _, _)
RECURSIVE PatchLoop(_, _, _)

\* faulty variant: the patch value is stored as it is, without the recursive merge
PatchEntry_shallow(doc, key, value) ==
    IF is_null(value)
    THEN MapRemove(doc, key)
    ELSE MapSet(MapOrInsert(doc, key, Null), key, value)

\* faulty variant: a null patch value is merged like any other value
PatchEntry_keepnull(doc, key, value) ==
    LET d1 == MapOrInsert(doc, key, Null)
    IN  MapSet(d1, key, json_patch(MapGet(d1, key), value))

\* faulty variant: the placeholder is inserted before the null test, and a
\* null removes the key only if the key was there before
PatchEntry_placeholder(doc, key, value) ==
    LET d1 == MapOrInsert(doc, key, Null)
    IN  IF is_null(value)
        THEN IF MapHas(doc, key) THEN MapRemove(d1, key) ELSE d1
        ELSE MapSet(d1, key, json_patch(MapGet(d1, key), value))

PatchEntry(doc, key, value) ==
    IF is_null(value)
    THEN MapRemove(doc, key)
    ELSE LET d1 == MapOrInsert(doc, key, Null)
         IN  MapSet(d1, key, json_patch(MapGet(d1, key), value))

PatchLoop(doc, pm, i) ==
    IF i > Len(pm)
    THEN doc
    ELSE PatchLoop(PatchEntry(doc, pm[i].k, pm[i].v), pm, i + 1)

\* faulty variant: a target that is no object is left as it is
json_patch_keep(target, patch) ==
    IF is_object(patch)
    THEN IF ~is_object(target)
         THEN target
         ELSE Obj(PatchLoop(target.m, patch.m, 1))
    ELSE patch

\* faulty variant: a scalar patch does not overwrite an object
json_patch_guard(target, patch) ==
    IF is_object(patch)
    THEN LET t0 == IF ~is_object(target) THEN Obj(MapNew) ELSE target
         IN  Obj(PatchLoop(t0.m, patch.m, 1))
    ELSE IF is_object(target) THEN target ELSE patch

json_patch(target, patch) ==
    IF is_object(patch)
    THEN LET t0 == IF ~is_object(target) THEN Obj(MapNew) ELSE target
         IN  Obj(PatchLoop(t0.m, patch.m, 1))
    ELSE patch

(***************************************************************************)
(* The store (data_store::Mmds), from spec.md 4.1, 4.2 and 4.4.            *)
(***************************************************************************)
Ok(v) == [ok |-> TRUE, v |-> v, e |-> ""]
Err(e) == [ok |-> FALSE, v |-> <<>>, e |-> e]
Unit == <<>>

\* Mmds::default(): the Document starts as an empty Node
MmdsDefault == Obj(MapNew)

\* TypeValidator: a Leaf is valid, a Node iff every child is, nothing else
RECURSIVE check_data_valid(_)
check_data_valid(v) ==
    IF is_object(v)
    THEN \A i \in 1..Len(v.m) : check_data_valid(v.m[i].v)
    ELSE is_string(v)

\* replace: [ret, doc] after put_data(data) on a store holding doc
put_data(doc, data) ==
    IF check_data_valid(data)
    THEN [ret |-> Ok(Unit), doc |-> data]
    ELSE [ret |-> Err("UnsupportedValueType"), doc |-> doc]

\* merge: [ret, doc] after patch_data(patch) on a store holding doc
patch_data(doc, patch) ==
    LET newDoc == json_patch(doc, patch)
    IN  [ret |-> Ok(Unit), doc |-> newDoc]

\* a path is a sequence of characters; Split cuts it at every "/"
RECURSIVE SplitFrom(_, _, _)
SplitFrom(path, i, cur) ==
    IF i > Len(path)
    THEN <<cur>>
    ELSE IF path[i] = "/"
         THEN <<cur>> \o SplitFrom(path, i + 1, <<>>)
         ELSE SplitFrom(path, i + 1, Append(cur, path[i]))

Split(path) == SplitFrom(path, 1, <<>>)

\* the segments that are not empty, in order
Segments(path) == SelectSeq(Split(path), LAMBDA seg : Len(seg) > 0)

\* the string a segment spells
RECURSIVE SegName(_)
SegName(seg) == IF Len(seg) = 0 THEN "" ELSE seg[1] \o SegName(Tail(seg))

NotFound == [t |-> "NotFound", s |-> "", m |-> <<>>]

\* PathResolver: the value the segments lead to from cur, or NotFound
RECURSIVE Walk(_, _, _)
Walk(cur, segs, i) ==
    IF i > Len(segs)
    THEN cur
    ELSE IF is_object(cur) /\ MapHas(cur.m, SegName(segs[i]))
         THEN Walk(MapGet(cur.m, SegName(segs[i])), segs, i + 1)
         ELSE NotFound

resolve(root, path) == Walk(root, Segments(path), 1)

\* render: a Leaf is one line, a Node one line per child key
render(v) ==
    IF is_string(v)
    THEN Ok(<<v.s>>)
    ELSE IF is_object(v)
         THEN Ok([i \in 1..Len(v.m) |-> v.m[i].k])
         ELSE Err("UnsupportedValueType")

\* read: what get_value(path) returns on a store holding doc
get_value(doc, path) ==
    LET v == resolve(doc, path)
    IN  IF v = NotFound THEN Err("NotFound") ELSE render(v)

(***************************************************************************)
(* The handlers' own computations (src/mmds/src/lib.rs, mod handlers).     *)
(***************************************************************************)
MdsPrefix == <<"/", "m", "d", "s">>

IsPrefixAt(pat, str, i) ==
    /\ i + Len(pat) - 1 <= Len(str)
    /\ \A j \in 1..Len(pat) : str[i + j - 1] = pat[j]

\* faulty variant: element [0] of the split, the text before "/mds"
PathAfterMds_first(fpath) ==
    LET hits == {i \in 1..Len(fpath) : IsPrefixAt(MdsPrefix, fpath, i)}
        first == CHOOSE i \in hits : \A j \in hits : i <= j
    IN  SubSeq(fpath, 1, first - 1)

\* fpath.as_str().splitn(2, "/mds").collect::<Vec<&str>>()[1]
PathAfterMds(fpath) ==
    LET hits == {i \in 1..Len(fpath) : IsPrefixAt(MdsPrefix, fpath, i)}
        first == CHOOSE i \in hits : \A j \in hits : i <= j
    IN  SubSeq(fpath, first + Len(MdsPrefix), Len(fpath))

\* value.join("\n")
RECURSIVE Join(_)
Join(lines) ==
    IF Len(lines) = 0 THEN <<>>
    ELSE IF Len(lines) = 1 THEN <<lines[1]>>
         ELSE <<lines[1], "\n">> \o Join(Tail(lines))

\* serde_json::to_string of the joined text: quoted, newlines escaped
ToJsonString(parts) ==
    <<"\"">> \o [i \in 1..Len(parts) |-> IF parts[i] = "\n" THEN "\\n" ELSE parts[i]]
        \o <<"\"">>

Response(status, body) == [status |-> status, body |-> body]

\* format!("{}", e)
ErrText(e) == <<e>>

\* faulty variant: every error of get_value answered 500, as PUT and PATCH do
GetResponse_plain(result) ==
    IF result.ok
    THEN Response("OK", ToJsonString(Join(result.v)))
    ELSE Response("INTERNAL_SERVER_ERROR", ErrText(result.e))

GetResponse(result) ==
    IF result.ok
    THEN Response("OK", ToJsonString(Join(result.v)))
    ELSE IF result.e = "NotFound"
         THEN Response("NOT_FOUND", ErrText(result.e))
         ELSE Response("INTERNAL_SERVER_ERROR", ErrText(result.e))

PutResponse(result) ==
    IF result.ok
    THEN Response("NO_CONTENT", <<>>)
    ELSE Response("INTERNAL_SERVER_ERROR", ErrText(result.e))

PatchResponse(result) ==
    IF result.ok
    THEN Response("NO_CONTENT", <<>>)
    ELSE Response("INTERNAL_SERVER_ERROR", ErrText(result.e))

(***************************************************************************)
(* Request inputs.                                                         *)
(***************************************************************************)
Keys == {"a", "b"}
Strs == {"x", "y"}
Scalars == {Str(s) : s \in Strs} \cup {Null, Num("43"), Bool("true"), Arr("[]")}

\* every JSON value made of exactly n values
RECURSIVE ValuesOfSize(_)
RECURSIVE MapsOfSize(_, _)
MapsOfSize(n, ks) ==
    IF n = 0
    THEN {<<>>}
    ELSE UNION { UNION { { <<Entry(k, v)>> \o rest :
                             v \in ValuesOfSize(i), rest \in MapsOfSize(n - i, ks \ {k}) } :
                         i \in 1..n } :
                 k \in ks }

ValuesOfSize(n) ==
    (IF n = 1 THEN Scalars ELSE {}) \cup {Obj(m) : m \in MapsOfSize(n - 1, Keys)}

Values == UNION {ValuesOfSize(n) : n \in 1..MaxSize}

\* the entries of every object of v are in key order
RECURSIVE InKeyOrder(_)
InKeyOrder(v) ==
    /\ \A i \in 1..Len(v.m) : InKeyOrder(v.m[i].v)
    /\ is_object(v) =>
          \A i, j \in 1..Len(v.m) : i < j => KeyRank(v.m[i].k) < KeyRank(v.m[j].k)

ValuesInKeyOrder == {v \in Values : InKeyOrder(v)}

\* serde_json::from_slice: the values a request body parses to; a BTreeMap
\* holds the entries of an object in key order whatever their order in the text
Bodies == IF build = "default" THEN ValuesInKeyOrder ELSE Values

PathChars == {"/", "a", "b"}

RECURSIVE StringsUpTo(_)
StringsUpTo(n) ==
    IF n = 0
    THEN {<<>>}
    ELSE StringsUpTo(n - 1) \cup
         {Append(w, c) : w \in {u \in StringsUpTo(n - 1) : Len(u) = n - 1}, c \in PathChars}

\* warp::path("mds") lets through "/mds" and "/mds/..."
FullPaths ==
    {MdsPrefix \o rest : rest \in {w \in StringsUpTo(MaxPathLen) : w = <<>> \/ w[1] = "/"}}

(***************************************************************************)
(* State.                                                                  *)
(***************************************************************************)
VARIABLES
    doc,      \* MMDS: the Document the one store holds
    req,      \* one client: the request handled last
    ret,      \* one client: what the store operation returned to the handler
    resp,     \* one client: the response the handler built
    base,     \* one client: the last replaced document and the one patch merged since
    nwrites,  \* one client: successful writes so far
    lock,     \* concurrent clients: the client holding the MMDS mutex, 0 when free
    pc,       \* concurrent clients: where each client's handler stands
    creq,     \* concurrent clients: the request each handler is serving
    cret,     \* concurrent clients: what the store operation returned to it
    cresp,    \* concurrent clients: the response it built
    work,     \* concurrent clients: the merged document a patch_data has not committed yet
    ncalls,   \* concurrent clients: requests sent so far
    hist,     \* concurrent clients: the calls in the order they took the mutex
    poisoned, \* concurrent clients: the MMDS mutex is poisoned
    target,   \* json_patch alone: the target before the call
    patch,    \* json_patch alone: the patch
    result    \* json_patch alone: the target after the call

storeVars == <<doc, req, ret, resp, base, nwrites>>
patchVars == <<target, patch, result>>
concVars == <<lock, pc, creq, cret, cresp, work, ncalls, hist, poisoned>>
vars == <<doc, req, ret, resp, base, nwrites, lock, pc, creq, cret, cresp, work, ncalls, hist,
          poisoned, target, patch, result, build>>

NoValue == [t |-> "none", s |-> "", m |-> <<>>]
NoReq == [op |-> "none", body |-> NoValue, path |-> <<>>]
NoRet == [ok |-> FALSE, v |-> <<>>, e |-> "none"]
NoResp == Response("none", <<>>)
NoBase == [d |-> NoValue, p |-> NoValue]

StoreInit ==
    /\ doc = MmdsDefault
    /\ req = NoReq
    /\ ret = NoRet
    /\ resp = NoResp
    /\ base = NoBase
    /\ nwrites = 0

Clients == {1, 2}

ConcIdle ==
    /\ lock = 0
    /\ pc = [c \in Clients |-> "idle"]
    /\ creq = [c \in Clients |-> NoReq]
    /\ cret = [c \in Clients |-> NoRet]
    /\ cresp = [c \in Clients |-> NoResp]
    /\ work = [c \in Clients |-> NoValue]
    /\ ncalls = 0
    /\ hist = <<>>
    /\ poisoned = FALSE

PatchIdle ==
    /\ target = NoValue
    /\ patch = NoValue
    /\ result = NoValue

(***************************************************************************)
(* One client: each handler runs from lock() to its response in one step;  *)
(* Reply hands the response to the client, who may then send a request.    *)
(***************************************************************************)
\* faulty variant: the PUT handler calls patch_data, as the PATCH handler does
put_mds_merge(data) ==
    LET r == patch_data(doc, data)
    IN  /\ req = NoReq
        /\ r.ret.ok => nwrites < MaxWrites
        /\ doc' = r.doc
        /\ req' = [op |-> "PUT", body |-> data, path |-> <<>>]
        /\ ret' = r.ret
        /\ resp' = PutResponse(r.ret)
        /\ base' = IF r.ret.ok THEN [d |-> data, p |-> NoValue] ELSE base
        /\ nwrites' = IF r.ret.ok THEN nwrites + 1 ELSE nwrites
        /\ UNCHANGED <<concVars, patchVars, build>>

put_mds(data) ==
    LET r == put_data(doc, data)
    IN  /\ req = NoReq
        /\ r.ret.ok => nwrites < MaxWrites
        /\ doc' = r.doc
        /\ req' = [op |-> "PUT", body |-> data, path |-> <<>>]
        /\ ret' = r.ret
        /\ resp' = PutResponse(r.ret)
        /\ base' = IF r.ret.ok THEN [d |-> data, p |-> NoValue] ELSE base
        /\ nwrites' = IF r.ret.ok THEN nwrites + 1 ELSE nwrites
        /\ UNCHANGED <<concVars, patchVars, build>>

\* faulty variant: the PATCH handler calls put_data, as the PUT handler does
patch_mds_replace(pt) ==
    LET r == put_data(doc, pt)
    IN  /\ req = NoReq
        /\ r.ret.ok => nwrites < MaxWrites
        /\ doc' = r.doc
        /\ req' = [op |-> "PATCH", body |-> pt, path |-> <<>>]
        /\ ret' = r.ret
        /\ resp' = PatchResponse(r.ret)
        /\ base' = IF ~r.ret.ok
                   THEN base
                   ELSE IF base.d # NoValue /\ base.p = NoValue
                        THEN [d |-> base.d, p |-> pt]
                        ELSE NoBase
        /\ nwrites' = IF r.ret.ok THEN nwrites + 1 ELSE nwrites
        /\ UNCHANGED <<concVars, patchVars, build>>

patch_mds(pt) ==
    LET r == patch_data(doc, pt)
    IN  /\ req = NoReq
        /\ r.ret.ok => nwrites < MaxWrites
        /\ doc' = r.doc
        /\ req' = [op |-> "PATCH", body |-> pt, path |-> <<>>]
        /\ ret' = r.ret
        /\ resp' = PatchResponse(r.ret)
        /\ base' = IF ~r.ret.ok
                   THEN base
                   ELSE IF base.d # NoValue /\ base.p = NoValue
                        THEN [d |-> base.d, p |-> pt]
                        ELSE NoBase
        /\ nwrites' = IF r.ret.ok THEN nwrites + 1 ELSE nwrites
        /\ UNCHANGED <<concVars, patchVars, build>>

get_mds(fpath) ==
    LET path == PathAfterMds(fpath)
        r == get_value(doc, path)
    IN  /\ req = NoReq
        /\ req' = [op |-> "GET", body |-> NoValue, path |-> fpath]
        /\ ret' = r
        /\ resp' = GetResponse(r)
        /\ UNCHANGED <<doc, base, nwrites>>
        /\ UNCHANGED <<concVars, patchVars, build>>

Reply ==
    /\ req # NoReq
    /\ req' = NoReq
    /\ ret' = NoRet
    /\ resp' = NoResp
    /\ UNCHANGED <<doc, base, nwrites>>
    /\ UNCHANGED <<concVars, patchVars, build>>

Init == StoreInit /\ ConcIdle /\ PatchIdle /\ build \in Builds

Next ==
    \/ \E data \in Bodies : put_mds(data)
    \/ \E pt \in Bodies : patch_mds(pt)
    \/ \E fpath \in FullPaths : get_mds(fpath)
    \/ Reply

Spec == Init /\ [][Next]_vars

(***************************************************************************)
(* json_patch alone, on every pair of bounded values.                      *)
(***************************************************************************)
\* a Node of three children: the least in which a deletion has two survivors
\* after the deleted key
WideNode == Obj(<<Entry("a", Str("x")), Entry("b", Str("y")), Entry("c", Str("x"))>>)

InitPatch ==
    /\ StoreInit
    /\ ConcIdle
    /\ build \in Builds
    /\ target \in Bodies \cup {WideNode}
    /\ patch \in Bodies
    /\ result = NoValue

Apply ==
    /\ result = NoValue
    /\ result' = json_patch(target, patch)
    /\ UNCHANGED <<target, patch>>
    /\ UNCHANGED <<storeVars, concVars, build>>

NextPatch == Apply

SpecPatch == InitPatch /\ [][NextPatch]_vars

(***************************************************************************)
(* Concurrent clients: the handlers run as tasks of the server and meet at *)
(* the MMDS mutex.  A handler takes the mutex (Lock), runs the store       *)
(* operation, drops the guard at the end of the statement (Unlock, where   *)
(* it also builds its response) and returns.                               *)
(***************************************************************************)
Req(op, body, path) == [op |-> op, body |-> body, path |-> path]

\* the requests the concurrent clients choose from
ConcRequests ==
    { Req("PUT", Obj(<<Entry("a", Str("x"))>>), <<>>),
      Req("PUT", Num("43"), <<>>),
      Req("PATCH", Obj(<<Entry("b", Str("y"))>>), <<>>),
      Req("PATCH", Obj(<<Entry("a", Null)>>), <<>>),
      Req("PATCH", Obj(<<Entry("a", Null), Entry("b", Str("x"))>>), <<>>),
      Req("GET", NoValue, MdsPrefix),
      Req("GET", NoValue, MdsPrefix \o <<"/", "a">>) }

\* the entry of hist that client c's call in progress made
Mine(c) == CHOOSE i \in 1..Len(hist) : hist[i].c = c /\ \A j \in (i + 1)..Len(hist) : hist[j].c # c

Receive(c, r) ==
    /\ pc[c] = "idle"
    /\ ncalls < MaxCalls
    /\ creq' = [creq EXCEPT ![c] = r]
    /\ ncalls' = ncalls + 1
    /\ pc' = [pc EXCEPT ![c] = "lock"]
    /\ UNCHANGED <<doc, lock, cret, cresp, work, hist>>
    /\ UNCHANGED <<req, ret, resp, base, nwrites, patchVars, poisoned, build>>

\* faulty variant: the handler enters without waiting for the mutex
Lock_nowait(c) ==
    /\ pc[c] = "lock"
    /\ lock' = c
    /\ hist' = Append(hist, [c |-> c, req |-> creq[c], ret |-> NoRet])
    /\ pc' = [pc EXCEPT ![c] = "held"]
    /\ UNCHANGED <<doc, creq, cret, cresp, work, ncalls>>
    /\ UNCHANGED <<req, ret, resp, base, nwrites, patchVars, poisoned, build>>

\* faulty variant: the handler takes a poisoned mutex as if it were sound
Lock_recover(c) ==
    /\ pc[c] = "lock"
    /\ lock = 0
    /\ lock' = c
    /\ hist' = Append(hist, [c |-> c, req |-> creq[c], ret |-> NoRet])
    /\ pc' = [pc EXCEPT ![c] = "held"]
    /\ UNCHANGED <<doc, creq, cret, cresp, work, ncalls>>
    /\ UNCHANGED <<req, ret, resp, base, nwrites, patchVars, poisoned, build>>

\* MMDS.lock().expect(..): blocks until the mutex is free; lock() returned Ok
Lock(c) ==
    /\ pc[c] = "lock"
    /\ lock = 0
    /\ ~poisoned
    /\ lock' = c
    /\ hist' = Append(hist, [c |-> c, req |-> creq[c], ret |-> NoRet])
    /\ pc' = [pc EXCEPT ![c] = "held"]
    /\ UNCHANGED <<doc, creq, cret, cresp, work, ncalls>>
    /\ UNCHANGED <<req, ret, resp, base, nwrites, patchVars, poisoned, build>>

\* the store operation has returned r to client c
Returned(c, r) ==
    /\ cret' = [cret EXCEPT ![c] = r]
    /\ hist' = [hist EXCEPT ![Mine(c)].ret = r]
    /\ pc' = [pc EXCEPT ![c] = "unlock"]

PutData(c) ==
    /\ pc[c] = "held"
    /\ creq[c].op = "PUT"
    /\ LET r == put_data(doc, creq[c].body)
       IN  /\ doc' = r.doc
           /\ Returned(c, r.ret)
    /\ UNCHANGED <<lock, creq, cresp, work, ncalls>>
    /\ UNCHANGED <<req, ret, resp, base, nwrites, patchVars, poisoned, build>>

\* faulty variant: the merge works on the Document itself, and the Document
\* holds the patch's first entry alone before the rest is merged
PatchMerge_inplace(c) ==
    /\ pc[c] = "held"
    /\ creq[c].op = "PATCH"
    /\ doc' = IF is_object(creq[c].body) /\ Len(creq[c].body.m) > 0
              THEN json_patch(doc, Obj(<<creq[c].body.m[1]>>))
              ELSE doc
    /\ work' = [work EXCEPT ![c] = json_patch(doc, creq[c].body)]
    /\ pc' = [pc EXCEPT ![c] = "commit"]
    /\ UNCHANGED <<lock, creq, cret, cresp, ncalls, hist>>
    /\ UNCHANGED <<req, ret, resp, base, nwrites, patchVars, poisoned, build>>

\* patch_data, first half: the merge, computed aside
PatchMerge(c) ==
    /\ pc[c] = "held"
    /\ creq[c].op = "PATCH"
    /\ work' = [work EXCEPT ![c] = json_patch(doc, creq[c].body)]
    /\ pc' = [pc EXCEPT ![c] = "commit"]
    /\ UNCHANGED <<doc, lock, creq, cret, cresp, ncalls, hist>>
    /\ UNCHANGED <<req, ret, resp, base, nwrites, patchVars, poisoned, build>>

\* patch_data, second half: the merged document becomes the Document
PatchCommit(c) ==
    /\ pc[c] = "commit"
    /\ doc' = work[c]
    /\ work' = [work EXCEPT ![c] = NoValue]
    /\ Returned(c, Ok(Unit))
    /\ UNCHANGED <<lock, creq, cresp, ncalls>>
    /\ UNCHANGED <<req, ret, resp, base, nwrites, patchVars, poisoned, build>>

GetValue(c) ==
    /\ pc[c] = "held"
    /\ creq[c].op = "GET"
    /\ Returned(c, get_value(doc, PathAfterMds(creq[c].path)))
    /\ UNCHANGED <<doc, lock, creq, cresp, work, ncalls>>
    /\ UNCHANGED <<req, ret, resp, base, nwrites, patchVars, poisoned, build>>

\* faulty variant: the guard is dropped on the success path alone
Unlock_onsuccess(c) ==
    /\ pc[c] = "unlock"
    /\ lock' = IF cret[c].ok THEN 0 ELSE lock
    /\ cresp' = [cresp EXCEPT ![c] =
                    IF creq[c].op = "GET" THEN GetResponse(cret[c])
                    ELSE IF creq[c].op = "PUT" THEN PutResponse(cret[c])
                    ELSE PatchResponse(cret[c])]
    /\ pc' = [pc EXCEPT ![c] = "done"]
    /\ UNCHANGED <<doc, creq, cret, work, ncalls, hist>>
    /\ UNCHANGED <<req, ret, resp, base, nwrites, patchVars, poisoned, build>>

\* the guard is dropped when the statement ends; the match builds the response
Unlock(c) ==
    /\ pc[c] = "unlock"
    /\ lock' = 0
    /\ cresp' = [cresp EXCEPT ![c] =
                    IF creq[c].op = "GET" THEN GetResponse(cret[c])
                    ELSE IF creq[c].op = "PUT" THEN PutResponse(cret[c])
                    ELSE PatchResponse(cret[c])]
    /\ pc' = [pc EXCEPT ![c] = "done"]
    /\ UNCHANGED <<doc, creq, cret, work, ncalls, hist>>
    /\ UNCHANGED <<req, ret, resp, base, nwrites, patchVars, poisoned, build>>

\* Ok(response): the handler is over and the client may send again
Return(c) ==
    /\ pc[c] = "done"
    /\ pc' = [pc EXCEPT ![c] = "idle"]
    /\ creq' = [creq EXCEPT ![c] = NoReq]
    /\ cret' = [cret EXCEPT ![c] = NoRet]
    /\ cresp' = [cresp EXCEPT ![c] = NoResp]
    /\ UNCHANGED <<doc, lock, work, ncalls, hist>>
    /\ UNCHANGED <<req, ret, resp, base, nwrites, patchVars, poisoned, build>>

NextConc ==
    \/ \E c \in Clients, r \in ConcRequests : Receive(c, r)
    \/ \E c \in Clients : Lock(c)
    \/ \E c \in Clients : PutData(c)
    \/ \E c \in Clients : PatchMerge(c)
    \/ \E c \in Clients : PatchCommit(c)
    \/ \E c \in Clients : GetValue(c)
    \/ \E c \in Clients : Unlock(c)
    \/ \E c \in Clients : Return(c)

SpecConc == Init /\ [][NextConc]_vars

\* MMDS.lock().expect(..) on a poisoned mutex: lock() returns Err once the
\* mutex is free and expect panics; the handler ends without a response
LockPoisoned(c) ==
    /\ pc[c] = "lock"
    /\ lock = 0
    /\ poisoned
    /\ pc' = [pc EXCEPT ![c] = "panicked"]
    /\ UNCHANGED <<doc, lock, creq, cret, cresp, work, ncalls, hist>>
    /\ UNCHANGED <<req, ret, resp, base, nwrites, patchVars, poisoned, build>>

\* the holder terminates abnormally inside the store operation: the guard
\* is dropped during the unwinding, which poisons the mutex
Panic(c) ==
    /\ pc[c] \in {"held", "commit"}
    /\ lock' = 0
    /\ poisoned' = TRUE
    /\ work' = [work EXCEPT ![c] = NoValue]
    /\ pc' = [pc EXCEPT ![c] = "panicked"]
    /\ UNCHANGED <<doc, creq, cret, cresp, ncalls, hist>>
    /\ UNCHANGED <<req, ret, resp, base, nwrites, patchVars, build>>

NextPoison ==
    \/ NextConc
    \/ \E c \in Clients : LockPoisoned(c)
    \/ \E c \in Clients : Panic(c)

SpecPoison == Init /\ [][NextPoison]_vars

\* the steps of client c's handler once it holds the mutex
Handler(c) ==
    PutData(c) \/ PatchMerge(c) \/ PatchCommit(c) \/ GetValue(c) \/ Unlock(c) \/ Return(c)

\* Fair scheduling: the runtime keeps running a handler that can take a step
\* (nothing between lock() and Ok(response) awaits or blocks), and a handler
\* blocked in lock() gets the mutex if the mutex is free again and again.
\* Clients are free never to send a request.
SpecLive ==
    /\ Init
    /\ [][NextConc]_vars
    /\ \A c \in Clients : WF_vars(Handler(c)) /\ SF_vars(Lock(c))

(***************************************************************************)
(* Vocabulary of the properties.                                           *)
(***************************************************************************)
\* every value reachable from v, v included
RECURSIVE SubValues(_)
SubValues(v) == {v} \cup UNION {SubValues(v.m[i].v) : i \in 1..Len(v.m)}

IsLeaf(v) == v.t = "string"
IsNode(v) == v.t = "object"
OnlyLeavesAndNodes(v) == \A u \in SubValues(v) : IsLeaf(u) \/ IsNode(u)

\* the positions inside a value: the key sequences that lead to its values
RECURSIVE Positions(_)
Positions(v) ==
    {<<>>} \cup UNION {{<<v.m[i].k>> \o q : q \in Positions(v.m[i].v)} : i \in 1..Len(v.m)}

\* the key sequence kp leads through Nodes of v to a value that is there
RECURSIVE Present(_, _)
Present(v, kp) ==
    \/ kp = <<>>
    \/ /\ IsNode(v)
       /\ MapHas(v.m, Head(kp))
       /\ Present(MapGet(v.m, Head(kp)), Tail(kp))

\* the value at a position that is Present
RECURSIVE At(_, _)
At(v, kp) == IF kp = <<>> THEN v ELSE At(MapGet(v.m, Head(kp)), Tail(kp))

\* value[key] as the tests read it: Null where there is no such entry
Index(v, key) == IF IsNode(v) /\ MapHas(v.m, key) THEN MapGet(v.m, key) ELSE Null

RECURSIVE IndexPath(_, _)
IndexPath(v, kp) == IF kp = <<>> THEN v ELSE IndexPath(Index(v, Head(kp)), Tail(kp))

Prefix(kp, n) == SubSeq(kp, 1, n)

Applied == result # NoValue

\* v without the entry at position kp (kp not empty and Present in v)
RECURSIVE WithoutEntry(_, _)
WithoutEntry(v, kp) ==
    IF Len(kp) = 1
    THEN Obj(MapRemove(v.m, kp[1]))
    ELSE Obj(MapSet(v.m, kp[1], WithoutEntry(MapGet(v.m, kp[1]), Tail(kp))))

NonNullKeys(m) == {k \in MapKeys(m) : ~is_null(MapGet(m, k))}

(***************************************************************************)
(* json_patch (SpecPatch).                                                 *)
(***************************************************************************)
\* C5: merging a Node patch into a Node target gives a Node in which every
\* patch key with a non-null value holds the recursive merge of the target's
\* value at that key (or of nothing) with the patch's value, every target key
\* the patch does not mention holds its old value, and there is no other key.
C5_MergeConformance ==
    (Applied /\ IsNode(target) /\ IsNode(patch)) =>
        /\ IsNode(result)
        /\ Len(result.m) = Cardinality(MapKeys(result.m))
        /\ \A k \in NonNullKeys(patch.m) :
              /\ MapHas(result.m, k)
              /\ MapGet(result.m, k) =
                    json_patch(IF MapHas(target.m, k) THEN MapGet(target.m, k) ELSE NoValue,
                               MapGet(patch.m, k))
        /\ \A k \in MapKeys(target.m) \ MapKeys(patch.m) :
              /\ MapHas(result.m, k)
              /\ MapGet(result.m, k) = MapGet(target.m, k)
        /\ MapKeys(result.m) =
              NonNullKeys(patch.m) \cup (MapKeys(target.m) \ MapKeys(patch.m))

\* a nested Node was merged: the old sibling stays and the new key is added
C5_Witness ==
    /\ Applied /\ IsNode(target) /\ IsNode(patch)
    /\ \E k \in Keys :
          /\ Present(target, <<k>>) /\ IsNode(At(target, <<k>>))
          /\ Len(At(target, <<k>>).m) = 1
          /\ Present(patch, <<k>>) /\ IsNode(At(patch, <<k>>))
          /\ Len(At(patch, <<k>>).m) = 1
          /\ Len(At(result, <<k>>).m) = 2

\* C6: under a Node patch every key whose patch value is null is absent from
\* the result at that level while the enclosing Node remains; when the key
\* was absent from the target the result is the one the patch without that
\* entry produces.
C6_MergeDeletion ==
    (Applied /\ IsNode(patch)) =>
        \A kp \in Positions(patch) :
            (kp # <<>> /\ is_null(At(patch, kp))) =>
                /\ Present(result, Prefix(kp, Len(kp) - 1))
                /\ IsNode(At(result, Prefix(kp, Len(kp) - 1)))
                /\ ~Present(result, kp)
                /\ ~Present(target, kp) => result = json_patch(target, WithoutEntry(patch, kp))

\* one null removes a key the target has, another names a key it has not
C6_Witness ==
    /\ Applied /\ IsNode(patch) /\ IsNode(target)
    /\ \E k1, k2 \in Keys :
          /\ Present(patch, <<k1>>) /\ is_null(At(patch, <<k1>>)) /\ Present(target, <<k1>>)
          /\ Present(patch, <<k2>>) /\ is_null(At(patch, <<k2>>)) /\ ~Present(target, <<k2>>)
          /\ result = Obj(MapNew)

\* C7: where the patch is a Node and the target, at the root or under nested
\* keys, is a value that is not a Node, the result there is the merge of the
\* patch into an empty Node.
C7_MergeCoercion ==
    Applied =>
        \A kp \in Positions(patch) \cap Positions(target) :
            (IsNode(At(patch, kp)) /\ ~IsNode(At(target, kp))) =>
                /\ Present(result, kp)
                /\ At(result, kp) = json_patch(Obj(MapNew), At(patch, kp))

\* a nested Leaf of the target is replaced by the patch's Node
C7_Witness ==
    /\ Applied
    /\ \E k \in Keys :
          /\ Present(target, <<k>>) /\ IsLeaf(At(target, <<k>>))
          /\ Present(patch, <<k>>) /\ IsNode(At(patch, <<k>>))
          /\ Len(At(patch, <<k>>).m) = 1
          /\ Present(result, <<k>>) /\ At(result, <<k>>) = At(patch, <<k>>)

\* C8: where the patch, at the root or under nested keys, is not a Node, the
\* result read at that position is the patch value, whatever the target was.
C8_MergeReplacement ==
    Applied =>
        \A kp \in Positions(patch) :
            ~IsNode(At(patch, kp)) =>
                IndexPath(result, kp) = At(patch, kp)

\* a nested Node with a child is replaced by the patch's Leaf
C8_Witness ==
    /\ Applied
    /\ \E k \in Keys :
          /\ Present(target, <<k>>) /\ IsNode(At(target, <<k>>))
          /\ Len(At(target, <<k>>).m) = 1
          /\ Present(patch, <<k>>) /\ IsLeaf(At(patch, <<k>>))
          /\ Present(result, <<k>>) /\ At(result, <<k>>) = At(patch, <<k>>)

(***************************************************************************)
(* The store behind its handlers, one client (Spec).                       *)
(***************************************************************************)
\* the requested path without its "/mds"
Rest(fpath) == SubSeq(fpath, Len(MdsPrefix) + 1, Len(fpath))

\* where the runs of characters other than "/" begin
SegStarts(path) == {i \in 1..Len(path) : path[i] # "/" /\ (i = 1 \/ path[i - 1] = "/")}

SegEnd(path, i) ==
    CHOOSE j \in i..Len(path) :
        /\ \A k \in i..j : path[k] # "/"
        /\ j = Len(path) \/ path[j + 1] = "/"

NthStart(path, n) ==
    CHOOSE i \in SegStarts(path) : Cardinality({j \in SegStarts(path) : j < i}) = n - 1

\* the names the path spells between its slashes, empty ones left out
SegNames(path) ==
    [n \in 1..Cardinality(SegStarts(path)) |->
        SegName(SubSeq(path, NthStart(path, n), SegEnd(path, NthStart(path, n))))]

\* the values a walk along the names ks visits, when every step finds a Node
\* holding the next name
Chains(root, ks) ==
    {c \in [0..Len(ks) -> SubValues(root)] :
        /\ c[0] = root
        /\ \A i \in 1..Len(ks) :
              /\ IsNode(c[i - 1])
              /\ MapHas(c[i - 1].m, ks[i])
              /\ c[i] = MapGet(c[i - 1].m, ks[i])}

\* the patch p says nothing about the position ks
Unmentioned(p, ks) ==
    \E i \in 1..Len(ks) :
        /\ Present(p, Prefix(ks, i - 1))
        /\ IsNode(At(p, Prefix(ks, i - 1)))
        /\ ~MapHas(At(p, Prefix(ks, i - 1)).m, ks[i])

\* C1: a PUT whose body holds, at any depth, a value that is neither a
\* string nor an object returns UnsupportedValueType and leaves the Document
\* as it was.
C1_ReplaceInvalidRejected ==
    [][(req = NoReq /\ req'.op = "PUT" /\ ~OnlyLeavesAndNodes(req'.body)) =>
          (ret' = Err("UnsupportedValueType") /\ doc' = doc)]_vars

\* a body with a bad value below its root was refused over a filled Document
C1_Witness ==
    /\ req.op = "PUT"
    /\ ret = Err("UnsupportedValueType")
    /\ IsNode(req.body) /\ ~OnlyLeavesAndNodes(req.body)
    /\ IsNode(doc) /\ Len(doc.m) > 0

\* C2: after every successful replace or merge, whatever the arguments,
\* every value reachable from the Document root is a string Leaf or a Node.
C2_TypeInvariant == OnlyLeavesAndNodes(doc)

\* C4: a PUT whose body is made of string Leaves and Nodes only succeeds and
\* the Document is then exactly the body; a GET of the root that follows
\* renders the body's root.
C4_ReplaceValid ==
    [][/\ (req = NoReq /\ req'.op = "PUT" /\ OnlyLeavesAndNodes(req'.body)) =>
              (ret' = Ok(Unit) /\ doc' = req'.body)
       /\ (/\ req = NoReq /\ req'.op = "GET"
           /\ base.d # NoValue /\ base.p = NoValue
           /\ SegStarts(Rest(req'.path)) = {}) =>
              ret' = render(base.d)]_vars

\* the root read after a second replace lists the new candidate's one key
C4_Witness ==
    /\ req.op = "GET" /\ SegStarts(Rest(req.path)) = {}
    /\ nwrites = 2
    /\ base.d # NoValue /\ base.p = NoValue
    /\ IsNode(base.d) /\ Len(base.d.m) = 1
    /\ ret = Ok(<<base.d.m[1].k>>)

\* C9: after a successful PUT of d and then a successful PATCH with p, with
\* no other write in between, a GET returns for every path what resolution
\* on the merge of p into d gives: a Leaf the patch sets is read as that
\* Leaf, and a position of d the patch does not mention reads as in d.
C9_WriteThenRead ==
    (req.op = "GET" /\ base.d # NoValue /\ base.p # NoValue) =>
        LET path == Rest(req.path)
            ks == SegNames(path)
        IN  /\ ret = get_value(json_patch(base.d, base.p), path)
            /\ (Len(ks) > 0 /\ Present(base.p, ks) /\ IsLeaf(At(base.p, ks))) =>
                  ret = Ok(<<At(base.p, ks).s>>)
            /\ (Present(base.d, ks) /\ Unmentioned(base.p, ks)) =>
                  ret = render(At(base.d, ks))

\* the Leaf the patch added under a Node of d that already had a child
C9_Witness ==
    /\ req.op = "GET" /\ base.d # NoValue /\ base.p # NoValue
    /\ LET ks == SegNames(Rest(req.path))
       IN  /\ Len(ks) = 2
           /\ Present(base.d, <<ks[1]>>) /\ IsNode(At(base.d, <<ks[1]>>))
           /\ Len(At(base.d, <<ks[1]>>).m) = 1
           /\ ~Present(base.d, ks)
           /\ Present(base.p, ks) /\ IsLeaf(At(base.p, ks))
           /\ ret = Ok(<<At(base.p, ks).s>>)
           /\ Len(At(doc, <<ks[1]>>).m) = 2

\* C10: a GET splits the path at "/", leaves out the empty segments and walks
\* from the root; it returns the value reached exactly when every step finds
\* a Node holding the segment as a key, NotFound otherwise, and the root when
\* the path has no segment.
C10_PathResolution ==
    req.op = "GET" =>
        LET path == Rest(req.path)
            ks == SegNames(path)
            chains == Chains(doc, ks)
            v == IF chains = {} THEN NotFound ELSE (CHOOSE c \in chains : TRUE)[Len(ks)]
        IN  /\ Cardinality(chains) <= 1
            /\ resolve(doc, path) = v
            /\ ret = IF v = NotFound THEN Err("NotFound") ELSE render(v)
            /\ Len(ks) = 0 => ret = render(doc)

\* a walk of two segments through a Node to a Leaf
C10_Witness ==
    /\ req.op = "GET"
    /\ Len(SegNames(Rest(req.path))) = 2
    /\ ret.ok
    /\ IsLeaf(resolve(doc, Rest(req.path)))

(***************************************************************************)
(* Concurrent clients (SpecConc).                                          *)
(***************************************************************************)
\* the Document after the first i calls of h, run one after the other
RECURSIVE DocAfter(_, _)
DocAfter(h, i) ==
    IF i = 0
    THEN MmdsDefault
    ELSE LET d == DocAfter(h, i - 1)
             r == h[i].req
         IN  IF r.op = "PUT" THEN put_data(d, r.body).doc
             ELSE IF r.op = "PATCH" THEN patch_data(d, r.body).doc
             ELSE d

\* what call i of h returns in that sequential run
RetAt(h, i) ==
    LET d == DocAfter(h, i - 1)
        r == h[i].req
    IN  IF r.op = "PUT" THEN put_data(d, r.body).ret
        ELSE IF r.op = "PATCH" THEN patch_data(d, r.body).ret
        ELSE get_value(d, Rest(r.path))

\* no store operation is under way
Quiescent == \A c \in Clients : pc[c] \in {"idle", "lock", "done"}

\* C3: under every interleaving of concurrent PUT, PATCH and GET calls the
\* results returned are those of running the calls one after the other in
\* the order they took the mutex, and whenever no operation is under way the
\* Document is the one that sequential run leaves; a GET therefore returns
\* what resolution gives on the Document a completed prefix of writes made.
C3_Linearizable ==
    /\ \A i \in 1..Len(hist) : hist[i].ret # NoRet => hist[i].ret = RetAt(hist, i)
    /\ Quiescent => doc = DocAfter(hist, Len(hist))
    /\ \A c \in Clients : pc[c] \in {"held", "commit", "unlock"} => lock = c

\* one client's GET has returned and its PUT waits for the mutex while the
\* other client's PATCH holds it, merged but not yet committed
C3_Witness ==
    \E a, b \in Clients :
        /\ a # b
        /\ pc[a] = "lock" /\ creq[a].op = "PUT"
        /\ pc[b] = "commit" /\ lock = b
        /\ Len(hist) = 2
        /\ hist[1].c = a /\ hist[1].req.op = "GET" /\ hist[1].ret.ok

(***************************************************************************)
(* One client (Spec): merge outcome, response mapping, initial state.      *)
(***************************************************************************)
\* C11: merge is total: whatever the Document and whatever the patch, a
\* PATCH returns success, never a typed error, and the handler answers
\* 204 with an empty body.
C11_MergeTotal ==
    req.op = "PATCH" => ret = Ok(Unit) /\ resp = Response("NO_CONTENT", <<>>)

\* a patch that replace would have refused succeeded on a Document two
\* writes away from the initial one
C11_Witness ==
    /\ req.op = "PATCH"
    /\ ~OnlyLeavesAndNodes(req.body)
    /\ ret.ok
    /\ nwrites = MaxWrites
    /\ base.d # NoValue

\* C12: the handlers map store outcomes to statuses exactly: a GET answers
\* 200 (with the lines joined by newline, as a JSON string) iff resolution
\* returned a value, 404 iff it returned NotFound and 500 iff it returned
\* UnsupportedValueType; a PUT or PATCH answers 204 with an empty body iff
\* the store operation succeeded and 500 with the error text iff it failed.
\* Every handled request has a response: no outcome is a rejection.
C12_OutcomeMapping ==
    /\ req # NoReq => resp # NoResp
    /\ req.op = "GET" =>
         /\ resp.status \in {"OK", "NOT_FOUND", "INTERNAL_SERVER_ERROR"}
         /\ resp.status = "OK" <=> ret.ok
         /\ resp.status = "NOT_FOUND" <=> ret = Err("NotFound")
         /\ resp.status = "INTERNAL_SERVER_ERROR" <=> ret = Err("UnsupportedValueType")
         /\ ret.ok => resp.body = ToJsonString(Join(ret.v))
         /\ ~ret.ok => resp.body = <<ret.e>>
    /\ req.op \in {"PUT", "PATCH"} =>
         /\ resp = Response("NO_CONTENT", <<>>) <=> ret.ok
         /\ resp = Response("INTERNAL_SERVER_ERROR", <<ret.e>>) <=> ~ret.ok
         /\ resp.status \in {"NO_CONTENT", "INTERNAL_SERVER_ERROR"}

\* a GET that missed a key of a Node of two children: 404, not 500
C12_Witness ==
    /\ req.op = "GET"
    /\ ret = Err("NotFound")
    /\ resp.status = "NOT_FOUND"
    /\ IsNode(doc) /\ Len(doc.m) = 2

C14_LockProgress ==
    /\ [](\A c \in Clients : lock = c => pc[c] \in {"held", "commit", "unlock"})
    /\ [](\A c \in Clients : pc[c] \in {"idle", "lock", "done"} => lock # c)
    /\ \A c \in Clients : (pc[c] = "lock") ~> (lock = c)
    /\ \A c \in Clients : (pc[c] = "lock") ~> (pc[c] = "done" /\ cresp[c] # NoResp)

\* a PUT that failed has released the mutex, and the client that sent its
\* request meanwhile holds it now
C14_Witness ==
    \E a, b \in Clients :
        /\ a # b
        /\ pc[a] = "done" /\ creq[a].op = "PUT" /\ ~cret[a].ok
        /\ cresp[a].status = "INTERNAL_SERVER_ERROR"
        /\ lock = b /\ pc[b] = "held"
        /\ Len(hist) = 2 /\ hist[1].c = a /\ hist[2].c = b

(***************************************************************************)
(* Concurrent clients and a holder that panics (SpecPoison).               *)
(***************************************************************************)
\* C15: a poisoned mutex is fatal to every later call: the mutex stays
\* poisoned, and from then on no handler enters a store operation, no
\* handler receives a result or builds a response, the Document does not
\* change, and every handler that reaches lock() halts there.
C15_PoisonFatal ==
    [][ /\ poisoned => poisoned'
        /\ poisoned' =>
             /\ lock' = 0
             /\ \A c \in Clients : pc'[c] \notin {"held", "commit", "unlock"}
        /\ poisoned =>
             /\ doc' = doc
             /\ hist' = hist
             /\ \A c \in Clients :
                  /\ cret'[c] \in {cret[c], NoRet}
                  /\ cresp'[c] \in {cresp[c], NoResp}
                  /\ (pc[c] = "lock" /\ pc'[c] # "lock") => pc'[c] = "panicked"
      ]_vars

\* a PATCH panicked holding the mutex after a write had succeeded, and the
\* other client's GET, sent afterwards or waiting then, halted at lock()
C15_Witness ==
    \E a, b \in Clients :
        /\ a # b
        /\ poisoned
        /\ pc[a] = "panicked" /\ creq[a].op = "PATCH"
        /\ Len(hist) = 2 /\ hist[2].c = a /\ hist[2].ret = NoRet
        /\ hist[1].ret = Ok(Unit)
        /\ pc[b] = "panicked" /\ creq[b].op = "GET" /\ cret[b] = NoRet

(***************************************************************************)
(* json_patch alone (SpecPatch): key order, idempotence, placeholders.     *)
(***************************************************************************)
\* the keys of the entries m, in their order
KeySeq(m) == [i \in 1..Len(m) |-> m[i].k]

\* the keys of Node r are the keys of Node t that r still has, in t's
\* order, followed by the keys r has from Node p alone, in p's order
OrderKept(t, p, r) ==
    KeySeq(r.m) =
        SelectSeq(KeySeq(t.m), LAMBDA k : MapHas(r.m, k))
            \o SelectSeq(KeySeq(p.m), LAMBDA k : ~MapHas(t.m, k) /\ MapHas(r.m, k))

\* C16: merging a Node patch keeps the target's surviving keys in their
\* relative order, updated keys at their place, and appends the keys the
\* patch adds after them, in the patch's order; so at every level where the
\* patch is a Node (a target that is no Node there counting as empty).
C16_MergeKeyOrder ==
    (Applied /\ IsNode(patch)) =>
        \A kp \in Positions(patch) :
            (IsNode(At(patch, kp)) /\ Present(result, kp)) =>
                OrderKept(IF Present(target, kp) /\ IsNode(At(target, kp))
                          THEN At(target, kp)
                          ELSE Obj(MapNew),
                          At(patch, kp), At(result, kp))

\* v is built from Leaves, Nodes and nulls alone
LeavesNodesNulls(v) == \A u \in SubValues(v) : IsLeaf(u) \/ IsNode(u) \/ is_null(u)

\* C17: merging is idempotent: merging the patch into the result of merging
\* it gives that result again, for every target and patch built from
\* Leaves, Nodes and null deletions.
C17_MergeIdempotent ==
    (Applied /\ LeavesNodesNulls(target) /\ LeavesNodesNulls(patch)) =>
        json_patch(result, patch) = result

\* a patch that deleted a key of the target, added another and changed the
\* target, with a Node below its root
C17_Witness ==
    /\ Applied
    /\ OnlyLeavesAndNodes(target)
    /\ LeavesNodesNulls(patch)
    /\ IsNode(patch) /\ IsNode(target)
    /\ \E i \in 1..Len(patch.m) : is_null(patch.m[i].v) /\ MapHas(target.m, patch.m[i].k)
    /\ \E i \in 1..Len(patch.m) : IsNode(patch.m[i].v) /\ ~MapHas(target.m, patch.m[i].k)
    /\ result # target
    /\ json_patch(result, patch) = result

(***************************************************************************)
(* One client (Spec): the store before its first write.                    *)
(***************************************************************************)
\* C18: before any write has succeeded the Document is the empty Node: a
\* GET of the empty path (no name between the slashes after "/mds")
\* succeeds with an empty listing, answered 200 with the empty JSON string,
\* and a GET of any path that names a segment returns NotFound, answered 404.
C18_InitialState ==
    nwrites = 0 =>
        /\ doc = Obj(MapNew)
        /\ req.op = "GET" =>
             IF SegNames(Rest(req.path)) = <<>>
             THEN ret = Ok(<<>>) /\ resp = Response("OK", <<"\"", "\"">>)
             ELSE ret = Err("NotFound") /\ resp.status = "NOT_FOUND"

\* a GET of a path of two names on the store nothing was written to
C18_Witness ==
    /\ nwrites = 0
    /\ base = NoBase
    /\ req.op = "GET"
    /\ Len(SegNames(Rest(req.path))) = 2
    /\ ret = Err("NotFound")

\* v holds no null, itself included
NoNull(v) == \A u \in SubValues(v) : ~is_null(u)

====
